---- MODULE Spec2Model ----
(***************************************************************************)
(* Model of the e-mail classification backend (backend/llm_client.py and   *)
(* backend/nlp_utils.py).                                                  *)
(*                                                                         *)
(* A Python str is a sequence of one-character strings.  Accented letters  *)
(* are written as two-symbol atoms: "a~" is a-tilde, "c," is c-cedilla,    *)
(* "e'" is e-acute, "e^" is e-circumflex (and "A~", "C,", "E'", "E^" their *)
(* upper-case forms).  Confidences are fixed-point numbers in hundredths   *)
(* (0.65 is 65), delays are in tenths of a second (0.8 s is 8).            *)
(***************************************************************************)
EXTENDS Integers, Sequences, FiniteSets, TLC

VARIABLES
    req,        \* the requests in progress: request id -> its frame (see BlankRequest)
    TEMPLATES,  \* llm_client.TEMPLATES, the module-level dict
    CONFIG,     \* MODEL and TIMEOUT, read from the environment at import
    fn_op,      \* pure-function harness: the function applied ("none" before)
    fn_text,    \* its text argument
    fn_topk,    \* its top_k argument (extract_keywords only)
    fn_max_chars, \* its max_chars argument (preprocess_for_sending only)
    fn_out      \* its return value

fnvars == <<fn_op, fn_text, fn_topk, fn_max_chars, fn_out>>

vars == <<req, TEMPLATES, CONFIG, fn_op, fn_text, fn_topk, fn_max_chars, fn_out>>

(***************************************************************************)
(* Bounds of the model.                                                    *)
(***************************************************************************)
MaxFrags == 3   \* an input text is a concatenation of at most MaxFrags fragments
MaxTopK  == 3   \* top_k ranges over 0..MaxTopK
MaxRetries == 3 \* a direct _retry_backoff_call has retries in 0..MaxRetries
MaxChars == 4   \* max_chars ranges over 0..MaxChars

(***************************************************************************)
(* Characters and the str methods the code uses.                           *)
(***************************************************************************)
Digits == {"0", "1", "2", "3", "4", "5", "6", "7", "8", "9"}

UpperChars ==
    <<"A", "B", "C", "D", "E", "F", "G", "H", "I", "J", "K", "L", "M", "N", "O",
      "P", "Q", "R", "S", "T", "U", "V", "W", "X", "Y", "Z", "A~", "C,", "E'", "E^">>

LowerChars ==
    <<"a", "b", "c", "d", "e", "f", "g", "h", "i", "j", "k", "l", "m", "n", "o",
      "p", "q", "r", "s", "t", "u", "v", "w", "x", "y", "z", "a~", "c,", "e'", "e^">>

Range(s) == {s[i] : i \in 1..Len(s)}

AsciiLetters == {UpperChars[i] : i \in 1..26} \cup {LowerChars[i] : i \in 1..26}

Letters == Range(UpperChars) \cup Range(LowerChars)

Whitespace == {" ", "\n", "\r", "\t"}

\* \w of a str pattern: Unicode letters, digits and the underscore
WordChars == Letters \cup Digits \cup {"_"}

LowerChar(c) ==
    IF \E i \in 1..Len(UpperChars) : UpperChars[i] = c
    THEN LowerChars[CHOOSE i \in 1..Len(UpperChars) : UpperChars[i] = c]
    ELSE c

UpperChar(c) ==
    IF \E i \in 1..Len(LowerChars) : LowerChars[i] = c
    THEN UpperChars[CHOOSE i \in 1..Len(LowerChars) : LowerChars[i] = c]
    ELSE c

\* str.lower()
Lower(s) == [i \in 1..Len(s) |-> LowerChar(s[i])]

\* str.capitalize(): first character upper-cased, the rest lower-cased
Capitalize(s) == [i \in 1..Len(s) |-> IF i = 1 THEN UpperChar(s[i]) ELSE LowerChar(s[i])]

\* `kw in t` for two strs
Contains(t, kw) ==
    \E i \in 0..(Len(t) - Len(kw)) : SubSeq(t, i + 1, i + Len(kw)) = kw

\* str.strip()
Strip(s) ==
    LET keep == {i \in 1..Len(s) : s[i] \notin Whitespace}
    IN  IF keep = {} THEN <<>>
        ELSE SubSeq(s, CHOOSE i \in keep : \A j \in keep : i <= j,
                       CHOOSE i \in keep : \A j \in keep : i >= j)

\* first index k >= i with t[k] outside class (Len(t)+1 when the run reaches the end)
RunEnd(t, i, class) ==
    CHOOSE k \in i..(Len(t) + 1) :
        /\ (k = Len(t) + 1 \/ t[k] \notin class)
        /\ \A j \in i..(k - 1) : t[j] \in class

(***************************************************************************)
(* llm_client.py: heuristics_fallback_classify                             *)
(***************************************************************************)
_PRODUCTIVE_KEYWORDS ==
    << <<"e", "r", "r", "o">>,
       <<"p", "r", "o", "b", "l", "e", "m", "a">>,
       <<"s", "o", "l", "i", "c", "i", "t">>,
       <<"a", "t", "u", "a", "l", "i", "z", "a">>,
       <<"a", "t", "u", "a", "l", "i", "z", "a", "c,", "a~", "o">>,
       <<"s", "t", "a", "t", "u", "s">>,
       <<"n", "a~", "o", " ", "c", "o", "n", "s", "i", "g", "o">>,
       <<"n", "a~", "o", " ", "f", "u", "n", "c", "i", "o", "n", "a">>,
       <<"f", "a", "l", "h", "a">>,
       <<"i", "n", "c", "i", "d", "e", "n", "t", "e">>,
       <<"r", "e", "c", "l", "a", "m", "a">>,
       <<"a", "j", "u", "d", "a">>,
       <<"s", "u", "p", "o", "r", "t", "e">> >>

Produtivo == <<"P", "r", "o", "d", "u", "t", "i", "v", "o">>

Improdutivo == <<"I", "m", "p", "r", "o", "d", "u", "t", "i", "v", "o">>

\* f"Contem palavra-chave indicativa: '{kw}'"
KeywordSummary(kw) ==
    <<"C", "o", "n", "t", "e'", "m", " ", "p", "a", "l", "a", "v", "r", "a", "-",
      "c", "h", "a", "v", "e", " ", "i", "n", "d", "i", "c", "a", "t", "i", "v", "a",
      ":", " ", "'">> \o kw \o <<"'">>

NoKeywordSummary ==
    <<"N", "e", "n", "h", "u", "m", "a", " ", "p", "a", "l", "a", "v", "r", "a", "-",
      "c", "h", "a", "v", "e", " ", "p", "r", "o", "d", "u", "t", "i", "v", "a", " ",
      "d", "e", "t", "e", "c", "t", "a", "d", "a">>

\* the for loop over _PRODUCTIVE_KEYWORDS from index k on, t already lower-cased
RECURSIVE HeuristicScan(_, _)
HeuristicScan(t, k) ==
    IF k > Len(_PRODUCTIVE_KEYWORDS)
    THEN [category |-> Improdutivo, confidence |-> 55, summary |-> NoKeywordSummary]
    ELSE IF Contains(t, _PRODUCTIVE_KEYWORDS[k])
         THEN [category |-> Produtivo, confidence |-> 65,
               summary |-> KeywordSummary(_PRODUCTIVE_KEYWORDS[k])]
         ELSE HeuristicScan(t, k + 1)

\* mutant: the text is not lower-cased
HeuristicsNoLower(text) == HeuristicScan(text, 1)

heuristics_fallback_classify(text) == HeuristicScan(Lower(text), 1)

(***************************************************************************)
(* llm_client.py: anonymize_text.  re.sub is a left-to-right scan: at each *)
(* position the pattern is tried; a match is replaced and the scan resumes *)
(* after it, otherwise the character is copied.  Boundaries are those of   *)
(* the string being scanned.                                               *)
(***************************************************************************)
D == "\\d"      \* pattern element: one digit; any other element is a literal

CPF_PATTERN == <<D, D, D, ".", D, D, D, ".", D, D, D, "-", D, D>>

CNPJ_PATTERN == <<D, D, ".", D, D, D, ".", D, D, D, "/", D, D, D, D, "-", D, D>>

DIGITS11_PATTERN == [i \in 1..11 |-> D]

DIGITS14_PATTERN == [i \in 1..14 |-> D]

EMAIL_REMOVIDO ==
    <<"[", "E", "M", "A", "I", "L", "_", "R", "E", "M", "O", "V", "I", "D", "O", "]">>

PII_REMOVIDO == <<"[", "P", "I", "I", "_", "R", "E", "M", "O", "V", "I", "D", "O", "]">>

NUM_REMOVIDO == <<"[", "N", "U", "M", "_", "R", "E", "M", "O", "V", "I", "D", "O", "]">>

IsWordAt(t, i) == i >= 1 /\ i <= Len(t) /\ t[i] \in WordChars

\* \b between t[i-1] and t[i]
WordBoundary(t, i) == IsWordAt(t, i - 1) /= IsWordAt(t, i)

\* a fixed-length pattern matched at i: index after the match, 0 when none
MatchFixed(pat, t, i) ==
    IF /\ i + Len(pat) - 1 <= Len(t)
       /\ \A k \in 1..Len(pat) :
             IF pat[k] = D THEN t[i + k - 1] \in Digits ELSE t[i + k - 1] = pat[k]
    THEN i + Len(pat)
    ELSE 0

\* \b<pat>\b
MatchBounded(pat, t, i) ==
    LET e == MatchFixed(pat, t, i)
    IN  IF e > 0 /\ WordBoundary(t, i) /\ WordBoundary(t, e) THEN e ELSE 0

\* \b\d{6,}\b : greedy, backtracking to the longest run of >= 6 digits that
\* ends on a boundary
MatchLongDigits(t, i) ==
    LET run  == RunEnd(t, i, Digits)
        ends == {e \in (i + 6)..run : WordBoundary(t, e)}
    IN  IF WordBoundary(t, i) /\ ends /= {}
        THEN CHOOSE e \in ends : \A f \in ends : f <= e
        ELSE 0

EmailLocal == AsciiLetters \cup Digits \cup {"_", ".", "+", "-"}

EmailDomain == AsciiLetters \cup Digits \cup {"-"}

EmailTail == AsciiLetters \cup Digits \cup {"-", "."}

\* [a-zA-Z0-9_.+-]+@[a-zA-Z0-9-]+\.[a-zA-Z0-9-.]+ : "@" is outside the first
\* class and "." outside the second, so each greedy run must end exactly at
\* the separator; the last run is taken whole
MatchEmail(t, i) ==
    LET j == RunEnd(t, i, EmailLocal)
        k == RunEnd(t, j + 1, EmailDomain)
        e == RunEnd(t, k + 1, EmailTail)
    IN  IF /\ j > i /\ j <= Len(t) /\ t[j] = "@"
           /\ k > j + 1 /\ k <= Len(t) /\ t[k] = "."
           /\ e > k + 1
        THEN e
        ELSE 0

MatchAt(pat, t, i) ==
    CASE pat = "email" -> MatchEmail(t, i)
      [] pat = "cpf"   -> MatchBounded(CPF_PATTERN, t, i)
      [] pat = "d11"   -> MatchBounded(DIGITS11_PATTERN, t, i)
      [] pat = "cnpj"  -> MatchBounded(CNPJ_PATTERN, t, i)
      [] pat = "d14"   -> MatchBounded(DIGITS14_PATTERN, t, i)
      [] pat = "d6"    -> MatchLongDigits(t, i)

RECURSIVE ReSubFrom(_, _, _, _)
ReSubFrom(pat, repl, t, i) ==
    IF i > Len(t) THEN <<>>
    ELSE LET e == MatchAt(pat, t, i)
         IN  IF e > 0
             THEN repl \o ReSubFrom(pat, repl, t, e)
             ELSE <<t[i]>> \o ReSubFrom(pat, repl, t, i + 1)

\* re.sub(pat, repl, t)
ReSub(pat, repl, t) == ReSubFrom(pat, repl, t, 1)

anonymize_text(text) ==
    LET t1 == ReSub("email", EMAIL_REMOVIDO, text)
        t2 == ReSub("cpf", PII_REMOVIDO, t1)
        t3 == ReSub("d11", PII_REMOVIDO, t2)
        t4 == ReSub("cnpj", PII_REMOVIDO, t3)
        t5 == ReSub("d14", PII_REMOVIDO, t4)
    IN  ReSub("d6", NUM_REMOVIDO, t5)

(***************************************************************************)
(* nlp_utils.py: clean_text, preprocess_for_sending, extract_keywords      *)
(***************************************************************************)
\* re.sub(r"\s+", " ", text) after the two replace calls: every maximal run
\* of whitespace becomes one space
RECURSIVE CollapseFrom(_, _)
CollapseFrom(t, i) ==
    IF i > Len(t) THEN <<>>
    ELSE IF t[i] \in Whitespace
         THEN <<" ">> \o CollapseFrom(t, RunEnd(t, i, Whitespace))
         ELSE <<t[i]>> \o CollapseFrom(t, i + 1)

clean_text(text) == Strip(CollapseFrom(text, 1))

\* the marker appended to a truncated text
TRUNCADO ==
    <<"\n", "\n", "[", ".", ".", ".", "T", "R", "U", "N", "C", "A", "D", "O", "]">>

\* text[:n] of a str; a negative n counts from the end
SliceTo(text, n) ==
    LET stop == IF n >= 0 THEN n ELSE Len(text) + n
    IN  SubSeq(text, 1, IF stop > Len(text) THEN Len(text) ELSE stop)

\* mutant: the marker is put before the characters kept
PreprocessMarkerFirst(text, max_chars) ==
    LET t == clean_text(text)
    IN  IF Len(t) > max_chars THEN TRUNCADO \o SliceTo(t, max_chars) ELSE t

preprocess_for_sending(text, max_chars) ==
    LET t == clean_text(text)
    IN  IF Len(t) > max_chars THEN SliceTo(t, max_chars) \o TRUNCADO ELSE t

\* [a-zA-ZÀ-ú ] : the characters the keyword filter keeps
KeywordChars == Letters \cup {" "}

\* str.split(): the maximal runs of non-whitespace characters
RECURSIVE SplitFrom(_, _)
SplitFrom(t, i) ==
    IF i > Len(t) THEN <<>>
    ELSE IF t[i] \in Whitespace
         THEN SplitFrom(t, i + 1)
         ELSE LET e == RunEnd(t, i, Range(t) \ Whitespace)
              IN  <<SubSeq(t, i, e - 1)>> \o SplitFrom(t, e)

STOPWORDS ==
    { <<"d", "e">>, <<"d", "a">>, <<"d", "o">>, <<"p", "a", "r", "a">>,
      <<"p", "o", "r">>, <<"c", "o", "m">>, <<"u", "m", "a">>, <<"u", "m">>,
      <<"e", "m">>, <<"e">>, <<"o">>, <<"a">>, <<"q", "u", "e">>, <<"n", "a">>,
      <<"n", "o">>, <<"n", "o", "s">>, <<"n", "a", "s">>, <<"p", "o", "i", "s">>,
      <<"m", "a", "s">>, <<"o", "u">>, <<"s", "e">>, <<"o", "n", "d", "e">>,
      <<"c", "o", "m", "o">>, <<"t", "e", "m">>, <<"t", "e^", "m">>,
      <<"t", "e", "r">>, <<"s", "e", "r">> }

\* the words of the text after lower-casing and punctuation removal
KeywordWords(text) ==
    LET t == clean_text(Lower(text))
    IN  SplitFrom([i \in 1..Len(t) |-> IF t[i] \in KeywordChars THEN t[i] ELSE " "], 1)

\* [w for w in words if w not in stopwords and len(w) > 3]
KeywordCandidates(text) ==
    SelectSeq(KeywordWords(text), LAMBDA w : w \notin STOPWORDS /\ Len(w) > 3)

\* the dedup loop from index k on: append when unseen, then test the length
RECURSIVE KeywordLoop(_, _, _, _)
KeywordLoop(kws, k, out, top_k) ==
    IF k > Len(kws) THEN out
    ELSE LET out2 == IF kws[k] \notin Range(out) THEN Append(out, kws[k]) ELSE out
         IN  IF Len(out2) >= top_k THEN out2
             ELSE KeywordLoop(kws, k + 1, out2, top_k)

extract_keywords(text, top_k) == KeywordLoop(KeywordCandidates(text), 1, <<>>, top_k)

(***************************************************************************)
(* Python values carried by the model's JSON and by optional arguments:    *)
(* None / JSON null, str, and numbers (in hundredths).                     *)
(***************************************************************************)
PyNone == [t |-> "none"]

PyStr(s) == [t |-> "str", s |-> s]

PyNum(v) == [t |-> "num", v |-> v]

DigitSeq == <<"0", "1", "2", "3", "4", "5", "6", "7", "8", "9">>

DigitVal(c) == (CHOOSE i \in 1..10 : DigitSeq[i] = c) - 1

\* the value of a string of decimal digits ("" is 0)
RECURSIVE DigitsToInt(_)
DigitsToInt(s) ==
    IF s = <<>> THEN 0
    ELSE 10 * DigitsToInt(SubSeq(s, 1, Len(s) - 1)) + DigitVal(s[Len(s)])

RECURSIVE IntToDigits(_)
IntToDigits(n) ==
    IF n < 10 THEN <<DigitSeq[n + 1]>>
    ELSE IntToDigits(n \div 10) \o <<DigitSeq[(n % 10) + 1]>>

\* str(x) of a float with at most two decimals: "1.5", "0.85", "-2.0"
FloatToStr(v) ==
    LET a == IF v < 0 THEN -v ELSE v
        frac == a % 100
    IN  (IF v < 0 THEN <<"-">> ELSE <<>>) \o IntToDigits(a \div 100) \o <<".">> \o
        (IF frac % 10 = 0 THEN <<DigitSeq[(frac \div 10) + 1]>>
         ELSE <<DigitSeq[(frac \div 10) + 1], DigitSeq[(frac % 10) + 1]>>)

\* str(x)
ToStr(x) ==
    CASE x.t = "none" -> <<"N", "o", "n", "e">>
      [] x.t = "str"  -> x.s
      [] x.t = "num"  -> FloatToStr(x.v)

\* bool(x)
Truthy(x) ==
    CASE x.t = "none" -> FALSE
      [] x.t = "str"  -> x.s /= <<>>
      [] x.t = "num"  -> x.v /= 0

INF == 100000000    \* float("inf"), in hundredths: above every modelled number

\* float(s) for a str: surrounding whitespace stripped, optional sign, then
\* "nan", "inf", or decimal digits with at most one point.  The result is
\* [ok, nan, v]; ok = FALSE is ValueError.  Digits past the second decimal
\* are dropped (the model's numbers are hundredths); exponents are not modelled.
ParseFloat(s) ==
    LET t    == Lower(Strip(s))
        neg  == t /= <<>> /\ t[1] = "-"
        body == IF t /= <<>> /\ t[1] \in {"+", "-"} THEN Tail(t) ELSE t
        dots == {i \in 1..Len(body) : body[i] = "."}
        dot  == IF dots = {} THEN Len(body) + 1 ELSE CHOOSE i \in dots : TRUE
        ip   == SubSeq(body, 1, dot - 1)
        fp   == SubSeq(body, dot + 1, Len(body))
        fp2  == SubSeq(fp \o <<"0", "0">>, 1, 2)
        mag  == 100 * DigitsToInt(ip) + DigitsToInt(fp2)
    IN  IF body = <<"n", "a", "n">> THEN [ok |-> TRUE, nan |-> TRUE, v |-> 0]
        ELSE IF body \in {<<"i", "n", "f">>, <<"i", "n", "f", "i", "n", "i", "t", "y">>}
        THEN [ok |-> TRUE, nan |-> FALSE, v |-> IF neg THEN -INF ELSE INF]
        ELSE IF /\ Cardinality(dots) <= 1
                /\ Range(ip) \cup Range(fp) \subseteq Digits
                /\ Len(ip) + Len(fp) >= 1
        THEN [ok |-> TRUE, nan |-> FALSE, v |-> IF neg THEN -mag ELSE mag]
        ELSE [ok |-> FALSE, nan |-> FALSE, v |-> 0]

\* float(x): TypeError for None, ValueError for a non-numeric str
ToFloat(x) ==
    CASE x.t = "none" -> [ok |-> FALSE, nan |-> FALSE, v |-> 0]
      [] x.t = "str"  -> ParseFloat(x.s)
      [] x.t = "num"  -> [ok |-> TRUE, nan |-> FALSE, v |-> x.v]

\* mutant: the lower bound of the clamp is forgotten
ClampUpperOnly(f) == IF ~f.nan /\ f.v < 100 THEN f.v ELSE 100

\* max(0.0, min(1.0, f)): min and max return their first argument unless the
\* second compares smaller (larger); every comparison with nan is False
Clamp(f) ==
    LET m == IF ~f.nan /\ f.v < 100 THEN f.v ELSE 100
    IN  IF m > 0 THEN m ELSE 0

(***************************************************************************)
(* The text of a classification reply, as a sequence of lexemes: free      *)
(* text, whitespace, braces, commas and "key": value pairs (q is the quote *)
(* character of the key and of a str value).  Nested objects and arrays    *)
(* are outside the modelled replies.                                        *)
(***************************************************************************)
LBRACE == [k |-> "{"]

RBRACE == [k |-> "}"]

COMMA == [k |-> ","]

TXT == [k |-> "txt"]

WS == [k |-> "ws"]

DQ == "\""

SQ == "'"

Pair(key, val, q) == [k |-> "pair", key |-> key, val |-> val, q |-> q]

\* str.strip() on a reply: leading and trailing whitespace lexemes go
StripLexemes(s) ==
    LET keep == {i \in 1..Len(s) : s[i].k /= "ws"}
    IN  IF keep = {} THEN <<>>
        ELSE SubSeq(s, CHOOSE i \in keep : \A j \in keep : i <= j,
                       CHOOSE i \in keep : \A j \in keep : i >= j)

RECURSIVE FilterLexemes(_, _, _)
FilterLexemes(s, i, drop) ==
    IF i > Len(s) THEN <<>>
    ELSE (IF i \in drop THEN <<>> ELSE <<s[i]>>) \o FilterLexemes(s, i + 1, drop)

\* json.loads(span): an object is "{", pairs in double quotes separated by
\* single commas, "}"; whitespace between lexemes is insignificant
JsonLoads(span) ==
    LET s     == FilterLexemes(span, 1, {i \in 1..Len(span) : span[i].k = "ws"})
        inner == SubSeq(s, 2, Len(s) - 1)
        ok    == /\ Len(s) >= 2
                 /\ s[1].k = "{"
                 /\ s[Len(s)].k = "}"
                 /\ (inner /= <<>> => Len(inner) % 2 = 1)
                 /\ \A i \in 1..Len(inner) :
                       IF i % 2 = 1
                       THEN inner[i].k = "pair" /\ inner[i].q = DQ
                       ELSE inner[i].k = ","
    IN  [ok |-> ok,
         obj |-> IF ok THEN SelectSeq(inner, LAMBDA x : x.k = "pair") ELSE <<>>]

\* the index of the first non-whitespace lexeme after i (Len+1 when none)
NextSolid(s, i) ==
    CHOOSE j \in (i + 1)..(Len(s) + 1) :
        /\ (j = Len(s) + 1 \/ s[j].k /= "ws")
        /\ \A m \in (i + 1)..(j - 1) : s[m].k = "ws"

\* the cleaning pass: ' -> ", then ",\s*}" -> "}" (no "]" in the model)
Repair(span) ==
    LET quoted == [i \in 1..Len(span) |->
                      IF span[i].k = "pair" THEN [span[i] EXCEPT !.q = DQ] ELSE span[i]]
        drop   == {i \in 1..Len(quoted) :
                      /\ quoted[i].k = ","
                      /\ NextSolid(quoted, i) <= Len(quoted)
                      /\ quoted[NextSolid(quoted, i)].k = "}"}
    IN  FilterLexemes(quoted, 1, drop)

\* _extract_json_from_text: [ok, obj]; ok = FALSE is the ValueError /
\* JSONDecodeError raised to the caller
_extract_json_from_text(text) ==
    LET opens  == {i \in 1..Len(text) : text[i].k = "{"}
        closes == {i \in 1..Len(text) : text[i].k = "}"}
        first  == CHOOSE i \in opens : \A j \in opens : i <= j
        last   == CHOOSE i \in closes : \A j \in closes : i >= j
        span   == SubSeq(text, first, last)
        strict == JsonLoads(span)
    IN  IF text = <<>> \/ opens = {} \/ closes = {} THEN [ok |-> FALSE, obj |-> <<>>]
        ELSE IF last < first THEN [ok |-> FALSE, obj |-> <<>>]
        ELSE IF strict.ok THEN strict
        ELSE JsonLoads(Repair(span))

\* dict.get(key, default): the last pair with that key wins
DictGet(obj, key, default) ==
    LET at == {i \in 1..Len(obj) : obj[i].key = key}
    IN  IF at = {} THEN default
        ELSE obj[CHOOSE i \in at : \A j \in at : i >= j].val

(***************************************************************************)
(* llm_client.py: classify_email, from the reply text to the result        *)
(***************************************************************************)
\* mutant: an ambiguous category is kept as it is instead of being given up
NormalizeCategoryKeepRaw(category) ==
    LET cat_norm == Capitalize(category)
        low      == Lower(cat_norm)
    IN  IF cat_norm \in {Produtivo, Improdutivo} THEN cat_norm
        ELSE IF Contains(low, <<"p", "r", "o", "d">>) THEN Produtivo
        ELSE IF Contains(low, <<"i", "m", "p", "r", "o", "d">>)
                    \/ Contains(low, <<"n", "a~", "o">>) THEN Improdutivo
        ELSE low

\* mutant: the category is compared without capitalize()
NormalizeCategoryCaseSensitive(category) ==
    LET low == Lower(category)
    IN  IF category \in {Produtivo, Improdutivo} THEN category
        ELSE IF Contains(low, <<"p", "r", "o", "d">>) THEN Produtivo
        ELSE IF Contains(low, <<"i", "m", "p", "r", "o", "d">>)
                    \/ Contains(low, <<"n", "a~", "o">>) THEN Improdutivo
        ELSE <<>>

\* lines 191-202: the canonical category, or <<>> when still ambiguous
NormalizeCategory(category) ==
    LET cat_norm == Capitalize(category)
        low      == Lower(cat_norm)
    IN  IF cat_norm \in {Produtivo, Improdutivo} THEN cat_norm
        ELSE IF Contains(low, <<"p", "r", "o", "d">>) THEN Produtivo
        ELSE IF Contains(low, <<"i", "m", "p", "r", "o", "d">>)
                    \/ Contains(low, <<"n", "a~", "o">>) THEN Improdutivo
        ELSE <<>>

\* line 187: str(parsed.get("category", "")).strip()
RawCategory(parsed) == Strip(ToStr(DictGet(parsed, "category", PyStr(<<>>))))

\* lines 204-210
NormalizeConfidence(confidence, cat_norm) ==
    LET f == ToFloat(confidence)
    IN  IF f.ok THEN Clamp(f)
        ELSE IF cat_norm = Produtivo THEN 70 ELSE 60

\* line 212
NormalizeSummary(summary) == IF Truthy(summary) THEN Strip(ToStr(summary)) ELSE <<>>

\* lines 183-214 on a received reply: [raised, heuristic, value]; raised is
\* the exception that reaches the except clause ("None" when none does),
\* heuristic tells that line 201 was taken
ClassifyReply(email_text, content) ==
    LET text_out == StripLexemes(content.s)
        extracted == _extract_json_from_text(text_out)
        parsed   == extracted.obj
        category == RawCategory(parsed)
        cat_norm == NormalizeCategory(category)
    IN  IF content.t = "none"
        THEN [raised |-> "AttributeError", heuristic |-> FALSE, value |-> PyNone]
        ELSE IF ~extracted.ok
        THEN [raised |-> "ValueError", heuristic |-> FALSE, value |-> PyNone]
        ELSE IF cat_norm = <<>>
        THEN [raised |-> "None", heuristic |-> TRUE,
              value |-> heuristics_fallback_classify(email_text)]
        ELSE [raised |-> "None", heuristic |-> FALSE,
              value |-> [category |-> cat_norm,
                         confidence |-> NormalizeConfidence(
                                            DictGet(parsed, "confidence", PyNone), cat_norm),
                         summary |-> NormalizeSummary(
                                            DictGet(parsed, "summary", PyStr(<<>>)))]]

(***************************************************************************)
(* Module-level state of llm_client.py and the requests being served.      *)
(***************************************************************************)
TEMPLATE_PRODUTIVO ==
    <<
      "O", "l", "a'", ",", "\n", "\n", "R", "e", "c", "e", "b", "e", "m", "o", "s",
      " ", "s", "u", "a", " ", "s", "o", "l", "i", "c", "i", "t", "a", "c,", "a~", "o",
      " ", "e", " ", "j", "a'", " ", "e", "s", "t", "a", "m", "o", "s", " ", "v", "e",
      "r", "i", "f", "i", "c", "a", "n", "d", "o", ".", " ", "P", "o", "r", " ", "f",
      "a", "v", "o", "r", ",", " ", "c", "o", "n", "f", "i", "r", "m", "e", " ", "o",
      "s", " ", "d", "a", "d", "o", "s", " ", "n", "e", "c", "e", "s", "s", "a'", "r",
      "i", "o", "s", " ", "(", "n", "u'", "m", "e", "r", "o", " ", "d", "o", " ", "p",
      "r", "o", "c", "e", "s", "s", "o", " ", "o", "u", " ", "m", "a", "i", "s", " ",
      "d", "e", "t", "a", "l", "h", "e", "s", ")", " ", "p", "a", "r", "a", " ", "q",
      "u", "e", " ", "p", "o", "s", "s", "a", "m", "o", "s", " ", "a", "c", "e", "l",
      "e", "r", "a", "r", " ", "o", " ", "a", "t", "e", "n", "d", "i", "m", "e", "n",
      "t", "o", ".", " ", "R", "e", "t", "o", "r", "n", "a", "r", "e", "m", "o", "s",
      " ", "c", "o", "m", " ", "u", "m", "a", " ", "a", "t", "u", "a", "l", "i", "z",
      "a", "c,", "a~", "o", " ", "a", "s", "s", "i", "m", " ", "q", "u", "e", " ", "p",
      "o", "s", "s", "i'", "v", "e", "l", ".", "\n", "\n", "A", "t", "e", "n", "c",
      "i", "o", "s", "a", "m", "e", "n", "t", "e", "," >>

TEMPLATE_IMPRODUTIVO ==
    <<
      "O", "l", "a'", ",", "\n", "\n", "A", "g", "r", "a", "d", "e", "c", "e", "m",
      "o", "s", " ", "a", " ", "s", "u", "a", " ", "m", "e", "n", "s", "a", "g", "e",
      "m", ".", " ", "C", "a", "s", "o", " ", "p", "r", "e", "c", "i", "s", "e", " ",
      "d", "e", " ", "s", "u", "p", "o", "r", "t", "e", " ", "o", "u", " ", "q", "u",
      "e", "i", "r", "a", " ", "a", "b", "r", "i", "r", " ", "u", "m", "a", " ", "s",
      "o", "l", "i", "c", "i", "t", "a", "c,", "a~", "o", ",", " ", "p", "o", "r", " ",
      "f", "a", "v", "o", "r", " ", "n", "o", "s", " ", "i", "n", "f", "o", "r", "m",
      "e", " ", "o", "s", " ", "d", "e", "t", "a", "l", "h", "e", "s", "." >>

InitialTemplates == (Produtivo :> TEMPLATE_PRODUTIVO) @@ (Improdutivo :> TEMPLATE_IMPRODUTIVO)

InitialConfig == [MODEL |-> "gpt-4o-mini", TIMEOUT |-> 20]

CLASSIFY_RETRIES == 3       \* retries=3, base_delay=1.0

CLASSIFY_BASE_DELAY == 10

IMPROD_RETRIES == 2         \* retries=2, base_delay=0.8

IMPROD_BASE_DELAY == 8

PROD_RETRIES == 3           \* retries=3, base_delay=1.0

PROD_BASE_DELAY == 10

MIN_REPLY_LEN == 30         \* len(reply) < 30

Exc(name) == [t |-> "exc", name |-> name]

RECURSIVE Pow2(_)
Pow2(n) == IF n = 0 THEN 1 ELSE 2 * Pow2(n - 1)

\* a request record before its entry point starts
BlankRequest ==
    [entry |-> "", pc |-> "", fn |-> "", email_text |-> <<>>,
     category |-> <<>>, summary |-> PyNone,
     text |-> <<>>, branch |-> "none", messages |-> PyNone,
     retries |-> 0, base_delay |-> 0, i |-> 0, last_exc |-> PyNone,
     resp |-> PyNone, raised |-> PyNone,
     cls |-> PyNone, gen |-> PyNone, result |-> PyNone,
     sent |-> PyNone, attempts |-> 0, calls |-> <<>>, slept |-> 0, heuristic_calls |-> 0,
     gen_source |-> "none"]

\* the request does call_llm_for_classify_and_respond(email_text)
PipelineRequest(email_text) ==
    [BlankRequest EXCEPT !.entry = "call_llm_for_classify_and_respond",
                         !.pc = "classify_email", !.email_text = email_text]

\* the request does generate_response(email_text, category, summary)
GenerateRequest(email_text, category, summary) ==
    [BlankRequest EXCEPT !.entry = "generate_response", !.pc = "generate_response",
                         !.email_text = email_text, !.category = category,
                         !.summary = summary]

\* the request does _retry_backoff_call(func, retries, base_delay)
RetryRequest(retries, base_delay) ==
    [BlankRequest EXCEPT !.entry = "_retry_backoff_call", !.pc = "retry_loop",
                         !.fn = "_retry_backoff_call",
                         !.retries = retries, !.base_delay = base_delay]

Set(r, rec) == req' = [req EXCEPT ![r] = rec]

\* openai.ChatCompletion.create(model=MODEL, messages=..., request_timeout=TIMEOUT)
Request(messages, temperature) ==
    [model |-> CONFIG.MODEL, messages |-> messages, temperature |-> temperature,
     request_timeout |-> CONFIG.TIMEOUT]

(***************************************************************************)
(* Inputs and outcomes of the external call.                               *)
(***************************************************************************)
PipelineTexts ==
    { <<>>,
      <<"e", "r", "r", "o", " ", "1", "2", "3", "4", "5", "6", "7", "8", "9", "0", "1">>,
      <<"o", "l", "a", " ", "s", "u", "p", "o", "r", "t", "e", "@", "x", ".", "c", "o">>,
      <<"S", "T", "A", "T", "U", "S", " ", "i", "d", "1", "2", "3", "4", "5", "6">> }

Exceptions == {Exc("Timeout"), Exc("APIError")}

Missing == [t |-> "missing"]    \* the key is absent from the JSON object

CategoryValues ==
    { Missing, PyNone, PyNum(150), PyStr(<<>>), PyStr(Produtivo), PyStr(Improdutivo),
      PyStr(<<"P", "R", "O", "D", "U", "T", "I", "V", "O", " ">>),
      PyStr(<<"i", "m", "p", "r", "o", "d", "u", "t", "i", "v", "o">>),
      PyStr(<<"I", "m", "p", "r", "o", "d", "u", "t", "i", "v", "a">>),
      PyStr(<<"e", "m", "a", "i", "l", " ", "i", "m", "p", "r", "o", "d", "u", "t", "i", "v", "o">>),
      PyStr(<<"N", "a~", "o", " ", "s", "e", "i">>),
      PyStr(<<"s", "p", "a", "m">>) }

ConfidenceValues ==
    { Missing, PyNone, PyNum(0), PyNum(90), PyNum(150), PyNum(-20),
      PyStr(<<"1", ".", "5">>), PyStr(<<"0", ".", "8", "5">>), PyStr(<<" ", "0", ".", "3">>),
      PyStr(<<"-", "2">>), PyStr(<<"a", "l", "t", "a">>), PyStr(<<"n", "a", "n">>) }

SummaryValues == { Missing, PyNone, PyStr(<<" ", "r", "e", "s", "u", "m", "o", " ">>) }

\* the pairs of an object, absent keys left out
Pairs(category, confidence, summary, q) ==
    (IF category = Missing THEN <<>> ELSE <<Pair("category", category, q)>>) \o
    (IF confidence = Missing THEN <<>> ELSE <<Pair("confidence", confidence, q)>>) \o
    (IF summary = Missing THEN <<>> ELSE <<Pair("summary", summary, q)>>)

RECURSIVE Join(_, _)
Join(pairs, sep) ==
    IF Len(pairs) <= 1 THEN pairs
    ELSE <<pairs[1]>> \o sep \o Join(Tail(pairs), sep)

Object(pairs) == <<LBRACE>> \o Join(pairs, <<COMMA>>) \o <<RBRACE>>

\* well-formed replies: every combination of the three values
PlainReplies ==
    { PyStr(Object(Pairs(c, f, s, DQ))) :
          c \in CategoryValues, f \in ConfidenceValues, s \in SummaryValues }

ShapedObjects ==
    { Pairs(c, f, PyStr(<<" ", "r", "e", "s", "u", "m", "o", " ">>), q) :
          c \in {PyStr(Produtivo), PyStr(<<"s", "p", "a", "m">>),
                 PyStr(<<"P", "R", "O", "D", "U", "T", "I", "V", "O", " ">>)},
          f \in {PyNum(90), PyStr(<<"1", ".", "5">>)},
          q \in {DQ, SQ} }

\* replies around a JSON object: prose before and after, padding, a trailing
\* comma, single quotes, a doubled or a missing comma, a repeated key, a
\* second object
ShapedReplies ==
    UNION { { PyStr(<<TXT, WS>> \o Object(p) \o <<WS, TXT>>),
              PyStr(<<WS>> \o Object(p) \o <<WS>>),
              PyStr(<<LBRACE>> \o Join(p, <<COMMA, WS>>) \o <<COMMA, WS, RBRACE>>),
              PyStr(<<LBRACE>> \o Join(p, <<COMMA>>) \o <<COMMA, COMMA, RBRACE>>),
              PyStr(<<LBRACE>> \o Join(p, <<>>) \o <<RBRACE>>),
              PyStr(<<LBRACE>> \o Join(p \o <<Pair("category", PyStr(Improdutivo), DQ)>>,
                                      <<COMMA>>) \o <<RBRACE>>),
              PyStr(Object(p) \o <<WS>> \o Object(p)) } : p \in ShapedObjects }

\* replies without a usable object, and a response without content
BrokenReplies ==
    { PyNone, PyStr(<<>>), PyStr(<<WS>>), PyStr(<<TXT>>), PyStr(<<TXT, LBRACE, TXT>>),
      PyStr(<<RBRACE, TXT, LBRACE>>), PyStr(<<LBRACE, TXT, RBRACE>>),
      PyStr(<<LBRACE, RBRACE>>) }

ClassifyReplies == PlainReplies \cup ShapedReplies \cup BrokenReplies

Fill(n) == [i \in 1..n |-> "x"]

GenerateReplies ==
    { PyNone, PyStr(<<>>), PyStr(<<" ", "\n">>), PyStr(<<"O", "k", ".">>),
      PyStr(Fill(MIN_REPLY_LEN - 1)), PyStr(Fill(MIN_REPLY_LEN)),
      PyStr(<<" ">> \o Fill(MIN_REPLY_LEN - 1) \o <<"\n">>),
      PyStr(<<" ">> \o Fill(MIN_REPLY_LEN + 1)) }

GenerateCategories ==
    { Produtivo, Improdutivo, <<"i", "m", "p", "r", "o", "d", "u", "t", "i", "v", "o">>,
      <<"s", "p", "a", "m">>, <<>> }

GenerateSummaries == { PyNone, PyStr(<<>>), PyStr(<<"r", "e", "s", "u", "m", "o">>) }

DirectReplies == { PyStr(<<"o", "k">>) }

RetryBudgets == 0..MaxRetries

BaseDelays == {IMPROD_BASE_DELAY, CLASSIFY_BASE_DELAY}

InitialRequests ==
    {PipelineRequest(t) : t \in PipelineTexts}
        \cup {GenerateRequest(t, c, s) :
                  t \in PipelineTexts, c \in GenerateCategories, s \in GenerateSummaries}
        \cup {RetryRequest(n, d) : n \in RetryBudgets, d \in BaseDelays}

\* what the external call of request r may return
RepliesOf(r, classify, generate) ==
    CASE req[r].fn = "classify_email" -> classify
      [] req[r].fn = "generate_response" -> generate
      [] OTHER -> DirectReplies

\* reduced sets, for several requests served concurrently
ConcTexts ==
    { <<"e", "r", "r", "o">>,
      <<"o", "l", "a", " ", "a", "n", "a", "@", "x", ".", "c", "o">>,
      <<"o", "l", "a", " ", "b", "o", "@", "y", "y", ".", "c", "o", "m">> }

ConcClassifyReplies ==
    { PyStr(Object(Pairs(PyStr(Produtivo), PyNum(90), Missing, DQ))),
      PyStr(Object(Pairs(PyStr(Improdutivo), Missing, Missing, DQ))),
      PyStr(<<TXT>>) }

ConcGenerateReplies == { PyStr(<<"O", "k", ".">>), PyStr(Fill(MIN_REPLY_LEN)) }

ConcExceptions == {Exc("Timeout")}

(***************************************************************************)
(* The pure functions of a request, tabulated over the request texts and   *)
(* the replies of the external call.                                       *)
(***************************************************************************)
RequestTexts == PipelineTexts \cup ConcTexts

\* anonymize_text(email_text)
ANONYMIZED == [t \in RequestTexts |-> anonymize_text(t)]

\* heuristics_fallback_classify(email_text)
HEURISTIC == [t \in RequestTexts |-> heuristics_fallback_classify(t)]

\* lines 183-214 of classify_email on the reply `content`
CLASSIFIED ==
    [t \in RequestTexts |->
        [content \in ClassifyReplies \cup ConcClassifyReplies |-> ClassifyReply(t, content)]]

(*** classify_email ***)
\* mutant: the prompt embeds the text as it was received
ClassifyBeginRawText(r) ==
    /\ req[r].pc = "classify_email"
    /\ LET text == req[r].email_text
       IN  Set(r, [req[r] EXCEPT
                !.fn = "classify_email", !.text = text,
                !.messages = [kind |-> "classify", email |-> text, summary |-> <<>>,
                              temperature |-> 0],
                !.retries = CLASSIFY_RETRIES, !.base_delay = CLASSIFY_BASE_DELAY,
                !.i = 0, !.last_exc = PyNone, !.attempts = 0, !.calls = <<>>, !.slept = 0,
                !.pc = "retry_loop"])
    /\ UNCHANGED <<TEMPLATES, CONFIG, fnvars>>

ClassifyBegin(r) ==
    /\ req[r].pc = "classify_email"
    /\ LET text == ANONYMIZED[req[r].email_text]
       IN  Set(r, [req[r] EXCEPT
                !.fn = "classify_email", !.text = text,
                !.messages = [kind |-> "classify", email |-> text, summary |-> <<>>,
                              temperature |-> 0],
                !.retries = CLASSIFY_RETRIES, !.base_delay = CLASSIFY_BASE_DELAY,
                !.i = 0, !.last_exc = PyNone, !.attempts = 0, !.calls = <<>>, !.slept = 0,
                !.pc = "retry_loop"])
    /\ UNCHANGED <<TEMPLATES, CONFIG, fnvars>>

(*** _retry_backoff_call ***)
\* mutant: the loop runs once more than retries
RetryAttemptOffByOne(r) ==
    /\ req[r].pc = "retry_loop"
    /\ req[r].i <= req[r].retries
    /\ Set(r, [req[r] EXCEPT !.pc = "in_call", !.attempts = @ + 1])
    /\ UNCHANGED <<TEMPLATES, CONFIG, fnvars>>

\* for i in range(retries): try: return func()
RetryAttempt(r) ==
    /\ req[r].pc = "retry_loop"
    /\ req[r].i < req[r].retries
    /\ Set(r, [req[r] EXCEPT
            !.pc = "in_call",
            !.attempts = @ + 1,
            !.sent = IF req[r].fn = "_retry_backoff_call" THEN PyNone
                     ELSE Request(req[r].messages, req[r].messages.temperature)])
    /\ UNCHANGED <<TEMPLATES, CONFIG, fnvars>>

\* the loop is over: raise last_exc (raise None is a TypeError)
RetryExhausted(r) ==
    /\ req[r].pc = "retry_loop"
    /\ req[r].i >= req[r].retries
    /\ Set(r, [req[r] EXCEPT
            !.raised = IF req[r].last_exc = PyNone THEN Exc("TypeError") ELSE req[r].last_exc,
            !.pc = CASE req[r].fn = "classify_email" -> "cls_except"
                     [] req[r].fn = "generate_response" -> "gen_except"
                     [] req[r].fn = "_retry_backoff_call" -> "retry_raised"])
    /\ UNCHANGED <<TEMPLATES, CONFIG, fnvars>>

\* the external call returns: _retry_backoff_call returns its value at once
CallReturns(r, content) ==
    /\ req[r].pc = "in_call"
    /\ Set(r, [req[r] EXCEPT
            !.resp = content,
            !.calls = Append(@, content),
            !.pc = CASE req[r].fn = "classify_email" -> "cls_reply"
                     [] req[r].fn = "generate_response" -> "gen_reply"
                     [] req[r].fn = "_retry_backoff_call" -> "retry_returned"])
    /\ UNCHANGED <<TEMPLATES, CONFIG, fnvars>>

\* the external call raises: except Exception as e: last_exc = e
CallRaises(r, e) ==
    /\ req[r].pc = "in_call"
    /\ Set(r, [req[r] EXCEPT !.last_exc = e, !.calls = Append(@, e), !.pc = "sleep"])
    /\ UNCHANGED <<TEMPLATES, CONFIG, fnvars>>

\* mutant: the delay grows linearly, base_delay * (i + 1)
SleepLinear(r) ==
    /\ req[r].pc = "sleep"
    /\ Set(r, [req[r] EXCEPT
            !.slept = @ + req[r].base_delay * (req[r].i + 1),
            !.i = @ + 1,
            !.pc = "retry_loop"])
    /\ UNCHANGED <<TEMPLATES, CONFIG, fnvars>>

\* delay = base_delay * (2 ** i); time.sleep(delay); next i
Sleep(r) ==
    /\ req[r].pc = "sleep"
    /\ Set(r, [req[r] EXCEPT
            !.slept = @ + req[r].base_delay * Pow2(req[r].i),
            !.i = @ + 1,
            !.pc = "retry_loop"])
    /\ UNCHANGED <<TEMPLATES, CONFIG, fnvars>>

(*** classify_email, after the call ***)
\* mutant: a reply that cannot be used counts as a failed attempt and is retried
ClassifyHandleReplyRetried(r) ==
    /\ req[r].pc = "cls_reply"
    /\ LET o == CLASSIFIED[req[r].email_text][req[r].resp]
       IN  IF o.raised /= "None"
           THEN Set(r, [req[r] EXCEPT !.last_exc = Exc(o.raised), !.pc = "sleep"])
           ELSE Set(r, [req[r] EXCEPT
                    !.cls = o.value,
                    !.heuristic_calls = @ + (IF o.heuristic THEN 1 ELSE 0),
                    !.pc = "cls_return"])
    /\ UNCHANGED <<TEMPLATES, CONFIG, fnvars>>

ClassifyHandleReply(r) ==
    /\ req[r].pc = "cls_reply"
    /\ LET o == CLASSIFIED[req[r].email_text][req[r].resp]
       IN  IF o.raised /= "None"
           THEN Set(r, [req[r] EXCEPT !.raised = Exc(o.raised), !.pc = "cls_except"])
           ELSE Set(r, [req[r] EXCEPT
                    !.cls = o.value,
                    !.heuristic_calls = @ + (IF o.heuristic THEN 1 ELSE 0),
                    !.pc = "cls_return"])
    /\ UNCHANGED <<TEMPLATES, CONFIG, fnvars>>

\* mutant: the fallback classifies the anonymized text
ClassifyExceptAnonymized(r) ==
    /\ req[r].pc = "cls_except"
    /\ Set(r, [req[r] EXCEPT
            !.cls = heuristics_fallback_classify(req[r].text),
            !.heuristic_calls = @ + 1,
            !.pc = "cls_return"])
    /\ UNCHANGED <<TEMPLATES, CONFIG, fnvars>>

\* except Exception: the heuristic on the original text
ClassifyExcept(r) ==
    /\ req[r].pc = "cls_except"
    /\ Set(r, [req[r] EXCEPT
            !.cls = HEURISTIC[req[r].email_text],
            !.heuristic_calls = @ + 1,
            !.pc = "cls_return"])
    /\ UNCHANGED <<TEMPLATES, CONFIG, fnvars>>

(*** call_llm_for_classify_and_respond: classify_email has returned ***)
CallGenerate(r) ==
    /\ req[r].pc = "cls_return"
    /\ Set(r, [req[r] EXCEPT
            !.category = req[r].cls.category,
            !.summary = PyStr(req[r].cls.summary),
            !.fn = "", !.text = <<>>, !.messages = PyNone, !.resp = PyNone,
            !.raised = PyNone, !.last_exc = PyNone, !.i = 0, !.attempts = 0, !.calls = <<>>,
            !.pc = "generate_response"])
    /\ UNCHANGED <<TEMPLATES, CONFIG, fnvars>>

(*** generate_response ***)
\* mutant: the category is compared after capitalize()
GenerateBeginAnyCase(r) ==
    /\ req[r].pc = "generate_response"
    /\ LET text   == ANONYMIZED[req[r].email_text]
           improd == Capitalize(req[r].category) = Improdutivo
       IN  Set(r, [req[r] EXCEPT
                !.fn = "generate_response", !.text = text,
                !.branch = IF improd THEN "Improdutivo" ELSE "Produtivo",
                !.messages =
                    IF improd
                    THEN [kind |-> "improdutivo", email |-> text, summary |-> <<>>,
                          temperature |-> 3]
                    ELSE [kind |-> "produtivo", email |-> text,
                          summary |-> IF Truthy(req[r].summary)
                                      THEN ToStr(req[r].summary) ELSE <<>>,
                          temperature |-> 2],
                !.retries = IF improd THEN IMPROD_RETRIES ELSE PROD_RETRIES,
                !.base_delay = IF improd THEN IMPROD_BASE_DELAY ELSE PROD_BASE_DELAY,
                !.i = 0, !.last_exc = PyNone, !.attempts = 0, !.calls = <<>>, !.slept = 0,
                !.pc = "retry_loop"])
    /\ UNCHANGED <<TEMPLATES, CONFIG, fnvars>>

GenerateBegin(r) ==
    /\ req[r].pc = "generate_response"
    /\ LET text   == ANONYMIZED[req[r].email_text]
           improd == req[r].category = Improdutivo
       IN  Set(r, [req[r] EXCEPT
                !.fn = "generate_response", !.text = text,
                !.branch = IF improd THEN "Improdutivo" ELSE "Produtivo",
                !.messages =
                    IF improd
                    THEN [kind |-> "improdutivo", email |-> text, summary |-> <<>>,
                          temperature |-> 3]
                    ELSE [kind |-> "produtivo", email |-> text,
                          summary |-> IF Truthy(req[r].summary)
                                      THEN ToStr(req[r].summary) ELSE <<>>,
                          temperature |-> 2],
                !.retries = IF improd THEN IMPROD_RETRIES ELSE PROD_RETRIES,
                !.base_delay = IF improd THEN IMPROD_BASE_DELAY ELSE PROD_BASE_DELAY,
                !.i = 0, !.last_exc = PyNone, !.attempts = 0, !.calls = <<>>, !.slept = 0,
                !.pc = "retry_loop"])
    /\ UNCHANGED <<TEMPLATES, CONFIG, fnvars>>

\* mutant: the Improdutivo branch only rejects empty replies
GenerateReplyNoLengthCheck(branch, content) ==
    LET reply == Strip(content.s)
    IN  IF content.t = "none" THEN [raised |-> "AttributeError", reply |-> <<>>]
        ELSE IF reply = <<>> THEN [raised |-> "ValueError", reply |-> <<>>]
        ELSE [raised |-> "None", reply |-> reply]

\* lines 256-260 and 290-293: [raised, reply]
GenerateReply(branch, content) ==
    LET reply == Strip(content.s)
    IN  IF content.t = "none" THEN [raised |-> "AttributeError", reply |-> <<>>]
        ELSE IF branch = "Improdutivo" /\ Len(reply) < MIN_REPLY_LEN
        THEN [raised |-> "ValueError", reply |-> <<>>]
        ELSE IF branch = "Produtivo" /\ reply = <<>>
        THEN [raised |-> "ValueError", reply |-> <<>>]
        ELSE [raised |-> "None", reply |-> reply]

GenerateHandleReply(r) ==
    /\ req[r].pc = "gen_reply"
    /\ LET o == GenerateReply(req[r].branch, req[r].resp)
       IN  IF o.raised /= "None"
           THEN Set(r, [req[r] EXCEPT !.raised = Exc(o.raised), !.pc = "gen_except"])
           ELSE Set(r, [req[r] EXCEPT
                    !.gen = [suggested_response |-> o.reply],
                    !.gen_source = "llm",
                    !.pc = "gen_return"])
    /\ UNCHANGED <<TEMPLATES, CONFIG, fnvars>>

\* mutant: every fallback answers with the Produtivo template
FallbackTemplateAlwaysProdutivo(r) == TEMPLATES[Produtivo]

\* mutant: the branch is kept in one module-level slot, written by request 1
FallbackTemplateShared(r) ==
    TEMPLATES[IF req[1].branch = "Improdutivo" THEN Improdutivo ELSE Produtivo]

\* the template of the branch taken
FallbackTemplate(r) == TEMPLATES[IF req[r].branch = "Improdutivo" THEN Improdutivo ELSE Produtivo]

\* except Exception: return {"suggested_response": TEMPLATES[...]}
GenerateExcept(r) ==
    /\ req[r].pc = "gen_except"
    /\ Set(r, [req[r] EXCEPT
            !.gen = [suggested_response |-> FallbackTemplate(r)],
            !.gen_source = "template",
            !.pc = "gen_return"])
    /\ UNCHANGED <<TEMPLATES, CONFIG, fnvars>>

(*** call_llm_for_classify_and_respond: return category, suggested ***)
Finish(r) ==
    /\ req[r].pc = "gen_return"
    /\ req[r].entry = "call_llm_for_classify_and_respond"
    /\ Set(r, [req[r] EXCEPT
            !.result = [category |-> req[r].category,
                        suggested |-> req[r].gen.suggested_response],
            !.pc = "done"])
    /\ UNCHANGED <<TEMPLATES, CONFIG, fnvars>>

(***************************************************************************)
(* Input texts: concatenations of at most MaxFrags fragments of one family *)
(***************************************************************************)
AnonFragments ==
    { <<"1", "2", "3", "4", "5">>,
      <<"1", "2", "3", "4", "5", "6">>,
      <<"1", "2", "3", "4", "5", "6", "7", "8", "9", "0", "1">>,
      <<"1", "2", "3", "4", "5", "6", "7", "8", "9", "0", "1", "2", "3", "4">>,
      <<"1", "2", "3", ".", "4", "5", "6", ".", "7", "8", "9", "-", "0", "1">>,
      <<"1", "2", ".", "3", "4", "5", ".", "6", "7", "8", "/", "0", "0", "0", "1", "-", "9", "9">>,
      <<"a", "n", "a", "@", "x", ".", "c", "o">>,
      <<"i", "d">>, <<"_">>, <<" ">> }

HeurFragments ==
    { <<"e", "r", "r", "o">>, <<"S", "T", "A", "T", "U", "S">>,
      <<"A", "t", "u", "a", "l", "i", "z", "a", "c,", "a~", "o">>,
      <<"n", "a~", "o">>, <<"c", "o", "n", "s", "i", "g", "o">>,
      <<"a", "j", "u", "d", "a">>, <<"o", "l", "a">>, <<" ">> }

KwFragments ==
    { <<"e", "m", "a", "i", "l">>, <<"T", "e", "s", "t", "e">>, <<"p", "a", "r", "a">>,
      <<"d", "e">>, <<"t", "e^", "m">>, <<"x", "1">>, <<",">>, <<" ">>, <<"\n">> }

RECURSIVE Concats(_, _)
Concats(frags, n) ==
    IF n = 0 THEN {<<>>}
    ELSE LET shorter == Concats(frags, n - 1)
         IN  shorter \cup {a \o b : a \in shorter, b \in frags}

Texts ==
    Concats(AnonFragments, MaxFrags) \cup Concats(HeurFragments, MaxFrags)
        \cup Concats(KwFragments, MaxFrags)

(***************************************************************************)
(* Pure-function harness: one call of one function on one input.           *)
(***************************************************************************)
InitFn ==
    /\ req = <<>>
    /\ TEMPLATES = InitialTemplates
    /\ CONFIG = InitialConfig
    /\ fn_op = "none"
    /\ fn_text \in Texts
    /\ fn_topk = 0
    /\ fn_max_chars = 0
    /\ fn_out = <<>>

CallAnonymize ==
    /\ fn_op = "none"
    /\ fn_op' = "anonymize_text"
    /\ fn_out' = anonymize_text(fn_text)
    /\ UNCHANGED <<fn_text, fn_topk, fn_max_chars, req, TEMPLATES, CONFIG>>

CallHeuristics ==
    /\ fn_op = "none"
    /\ fn_op' = "heuristics_fallback_classify"
    /\ fn_out' = heuristics_fallback_classify(fn_text)
    /\ UNCHANGED <<fn_text, fn_topk, fn_max_chars, req, TEMPLATES, CONFIG>>

CallExtractKeywords ==
    /\ fn_op = "none"
    /\ \E k \in 0..MaxTopK :
          /\ fn_topk' = k
          /\ fn_out' = extract_keywords(fn_text, k)
    /\ fn_op' = "extract_keywords"
    /\ UNCHANGED <<fn_text, fn_max_chars, req, TEMPLATES, CONFIG>>

CallPreprocess ==
    /\ fn_op = "none"
    /\ \E n \in 0..MaxChars :
          /\ fn_max_chars' = n
          /\ fn_out' = preprocess_for_sending(fn_text, n)
    /\ fn_op' = "preprocess_for_sending"
    /\ UNCHANGED <<fn_text, fn_topk, req, TEMPLATES, CONFIG>>

NextFn == CallAnonymize \/ CallHeuristics \/ CallExtractKeywords \/ CallPreprocess

SpecFn == InitFn /\ [][NextFn]_vars
(***************************************************************************)
(* One request at a time, over the full input and outcome sets.            *)
(***************************************************************************)
FnIdle ==
    fn_op = "none" /\ fn_text = <<>> /\ fn_topk = 0 /\ fn_max_chars = 0 /\ fn_out = <<>>

Single == {1}          \* one request in progress

Init ==
    /\ req \in [Single -> InitialRequests]
    /\ TEMPLATES = InitialTemplates
    /\ CONFIG = InitialConfig
    /\ FnIdle

Next ==
    \E r \in Single :
        \/ ClassifyBegin(r)
        \/ RetryAttempt(r)
        \/ RetryExhausted(r)
        \/ \E content \in RepliesOf(r, ClassifyReplies, GenerateReplies) :
               CallReturns(r, content)
        \/ \E e \in Exceptions : CallRaises(r, e)
        \/ Sleep(r)
        \/ ClassifyHandleReply(r)
        \/ ClassifyExcept(r)
        \/ CallGenerate(r)
        \/ GenerateBegin(r)
        \/ GenerateHandleReply(r)
        \/ GenerateExcept(r)
        \/ Finish(r)

Spec == Init /\ [][Next]_vars

\* the thread of a request keeps running: every call returns or raises
\* (request_timeout), every sleep ends
SpecLive == Spec /\ WF_vars(Next)

(***************************************************************************)
(* Several requests served concurrently (one thread each), over reduced    *)
(* input and outcome sets.                                                  *)
(***************************************************************************)
\* interference is a relation between two requests: two threads are served
Concurrent == {1, 2}

InitConc ==
    /\ req \in [Concurrent -> {PipelineRequest(t) : t \in ConcTexts}]
    /\ TEMPLATES = InitialTemplates
    /\ CONFIG = InitialConfig
    /\ FnIdle

NextConc ==
    \E r \in Concurrent :
        \/ ClassifyBegin(r)
        \/ RetryAttempt(r)
        \/ RetryExhausted(r)
        \/ \E content \in RepliesOf(r, ConcClassifyReplies, ConcGenerateReplies) :
               CallReturns(r, content)
        \/ \E e \in ConcExceptions : CallRaises(r, e)
        \/ Sleep(r)
        \/ ClassifyHandleReply(r)
        \/ ClassifyExcept(r)
        \/ CallGenerate(r)
        \/ GenerateBegin(r)
        \/ GenerateHandleReply(r)
        \/ GenerateExcept(r)
        \/ Finish(r)

SpecConc == InitConc /\ [][NextConc]_vars

(***************************************************************************)
(* Properties of the pure functions (checked under SpecFn).                *)
(***************************************************************************)
KeywordHits(text) ==
    {k \in 1..Len(_PRODUCTIVE_KEYWORDS) : Contains(Lower(text), _PRODUCTIVE_KEYWORDS[k])}

\* C7: heuristics_fallback_classify is decided by the first keyword of the
\* fixed list that occurs in the lower-cased text: (Produtivo, 0.65, summary
\* naming that keyword); with no keyword present it is (Improdutivo, 0.55,
\* fixed summary); the confidence is never anything but 0.55 or 0.65.
C7_HeuristicFirstKeywordWins ==
    fn_op = "heuristics_fallback_classify" =>
        LET hits == KeywordHits(fn_text)
        IN  /\ fn_out.confidence \in {55, 65}
            /\ IF hits = {}
               THEN fn_out = [category |-> Improdutivo, confidence |-> 55,
                              summary |-> NoKeywordSummary]
               ELSE LET first == CHOOSE k \in hits : \A j \in hits : k <= j
                    IN  fn_out = [category |-> Produtivo, confidence |-> 65,
                                  summary |-> KeywordSummary(_PRODUCTIVE_KEYWORDS[first])]

\* C7 witness: a text with upper-case letters holding two keywords, neither
\* the first of the list, classified by the earlier one ("status")
C7_Witness ==
    /\ fn_op = "heuristics_fallback_classify"
    /\ fn_text /= Lower(fn_text)
    /\ KeywordHits(fn_text) = {6, 12}
    /\ fn_out.summary = KeywordSummary(<<"s", "t", "a", "t", "u", "s">>)

HasDigitRun(t, n) ==
    \E i \in 1..(Len(t) - n + 1) : \A k \in i..(i + n - 1) : t[k] \in Digits

\* C8: the output of anonymize_text holds no substring matching the email,
\* CPF or CNPJ pattern and no run of 6 or more consecutive digits, whatever
\* surrounds it; an input that is one standalone 11- or 14-digit run becomes
\* the PII placeholder.
C8_NoSensitiveSubstringSurvives ==
    fn_op = "anonymize_text" =>
        /\ ~HasDigitRun(fn_out, 6)
        /\ \A i \in 1..Len(fn_out) :
              /\ MatchEmail(fn_out, i) = 0
              /\ MatchFixed(CPF_PATTERN, fn_out, i) = 0
              /\ MatchFixed(CNPJ_PATTERN, fn_out, i) = 0
        /\ (Len(fn_text) \in {11, 14} /\ Range(fn_text) \subseteq Digits
               => fn_out = PII_REMOVIDO)

FirstIndex(seq, x) == CHOOSE i \in 1..Len(seq) : seq[i] = x /\ \A j \in 1..(i - 1) : seq[j] /= x

\* C10: for every text and top_k >= 0, extract_keywords returns a list with
\* no duplicates, in first-seen order, of length at most top_k, with no
\* stopword and no word of length 3 or less.
C10_KeywordsBoundedDistinct ==
    fn_op = "extract_keywords" =>
        LET words == KeywordWords(fn_text)
        IN  /\ Len(fn_out) <= fn_topk
            /\ \A i, j \in 1..Len(fn_out) : i /= j => fn_out[i] /= fn_out[j]
            /\ \A i \in 1..Len(fn_out) :
                  /\ fn_out[i] \in Range(words)
                  /\ fn_out[i] \notin STOPWORDS
                  /\ Len(fn_out[i]) > 3
            /\ \A i, j \in 1..Len(fn_out) :
                  i < j => FirstIndex(words, fn_out[i]) < FirstIndex(words, fn_out[j])

\* C11: for every text that is already whitespace-collapsed and trimmed and
\* every max_chars (a number of characters, 0 or more), applying
\* preprocess_for_sending to its own output gives that output again, also
\* when the first application truncated the text and appended the marker.
C11_PreprocessIdempotentOnCleanInput ==
    fn_op = "preprocess_for_sending" /\ clean_text(fn_text) = fn_text =>
        preprocess_for_sending(fn_out, fn_max_chars) = fn_out

\* C11 witness: a clean text cut inside a word and one cut after a space,
\* both carrying the marker and both unchanged by a second application
C11_Witness ==
    /\ fn_op = "preprocess_for_sending"
    /\ clean_text(fn_text) = fn_text
    /\ Len(fn_text) > fn_max_chars
    /\ fn_max_chars > 0
    /\ fn_text[fn_max_chars] = " "
    /\ fn_out = SubSeq(fn_text, 1, fn_max_chars) \o TRUNCADO
    /\ clean_text(fn_out) /= fn_out
    /\ preprocess_for_sending(fn_out, fn_max_chars) = fn_out

(***************************************************************************)
(* Properties of the pipeline (checked under Spec, C9 under SpecConc).     *)
(***************************************************************************)
Canonical == {Produtivo, Improdutivo}

AllFailed(calls) == \A k \in 1..Len(calls) : calls[k].t = "exc"

LastCall(r) == req[r].calls[Len(req[r].calls)]

GotReply(r) == req[r].calls /= <<>> /\ LastCall(r).t /= "exc"

\* C1: for every input text and every sequence of call outcomes, an
\* exception raised inside classify_email never leaves it (the request is in
\* the except clause or has returned), and the category it returns is
\* exactly 'Produtivo' or 'Improdutivo'.
C1_ClassifyReturnsCanonicalCategory ==
    \A r \in DOMAIN req :
        /\ req[r].fn = "classify_email" /\ req[r].raised /= PyNone
              => req[r].pc \in {"cls_except", "cls_return"}
        /\ req[r].pc = "cls_return" => req[r].cls.category \in Canonical

\* C1 witness: the model answered with a category that is neither canonical
\* nor recognisable, and classify_email has returned
C1_Witness ==
    \E r \in DOMAIN req :
        /\ req[r].pc = "cls_return"
        /\ GotReply(r)
        /\ LastCall(r).t = "str"
        /\ _extract_json_from_text(StripLexemes(LastCall(r).s)).ok
        /\ RawCategory(_extract_json_from_text(StripLexemes(LastCall(r).s)).obj)
               = <<"s", "p", "a", "m">>

TemplateOfCategory(category) ==
    IF category = Improdutivo THEN TEMPLATE_IMPRODUTIVO ELSE TEMPLATE_PRODUTIVO

\* the reply of the last call is one generate_response rejects
ReplyRejected(r) ==
    /\ GotReply(r)
    /\ \/ LastCall(r).t = "none"
       \/ /\ LastCall(r).t = "str"
          /\ IF req[r].category = Improdutivo
             THEN Len(Strip(LastCall(r).s)) < MIN_REPLY_LEN
             ELSE Strip(LastCall(r).s) = <<>>

\* C2: generate_response never lets an exception out and returns a non-empty
\* suggested response; when all attempts failed or the reply was rejected,
\* the response is exactly the static template of the branch taken.
C2_GenerateFallsBackToBranchTemplate ==
    \A r \in DOMAIN req :
        /\ req[r].fn = "generate_response" /\ req[r].raised /= PyNone
              => req[r].pc \in {"gen_except", "gen_return", "done"}
        /\ req[r].pc \in {"gen_return", "done"} =>
              /\ req[r].gen.suggested_response /= <<>>
              /\ (AllFailed(req[r].calls) \/ ReplyRejected(r))
                    => req[r].gen.suggested_response = TemplateOfCategory(req[r].category)

\* C2 witness: generate_response called on its own with a category that is
\* not canonical, its reply rejected, the Produtivo template returned
C2_Witness ==
    \E r \in DOMAIN req :
        /\ req[r].pc = "gen_return"
        /\ req[r].category = <<"i", "m", "p", "r", "o", "d", "u", "t", "i", "v", "o">>
        /\ ReplyRejected(r)
        /\ req[r].gen.suggested_response = TEMPLATE_PRODUTIVO

\* classification cannot use the model: every attempt failed, or the reply
\* has no parsable JSON, or its category is ambiguous
CannotUseModel(r) ==
    \/ Len(req[r].calls) = CLASSIFY_RETRIES /\ AllFailed(req[r].calls)
    \/ /\ GotReply(r)
       /\ \/ LastCall(r).t = "none"
          \/ ~_extract_json_from_text(StripLexemes(LastCall(r).s)).ok
          \/ NormalizeCategory(
                 RawCategory(_extract_json_from_text(StripLexemes(LastCall(r).s)).obj)) = <<>>

\* C3: whenever classification cannot use the model, the result of
\* classify_email is heuristics_fallback_classify of the original,
\* non-anonymized text, with confidence 0.65 or 0.55.
C3_FallbackIsHeuristicOnOriginalText ==
    \A r \in DOMAIN req :
        req[r].pc = "cls_return" /\ CannotUseModel(r) =>
            /\ req[r].cls = heuristics_fallback_classify(req[r].email_text)
            /\ req[r].cls.confidence \in {55, 65}

\* C3 witness: all three attempts failed on a text whose only keyword lies
\* inside an anonymized span, and the result is Produtivo
C3_Witness ==
    \E r \in DOMAIN req :
        /\ req[r].pc = "cls_return"
        /\ Len(req[r].calls) = CLASSIFY_RETRIES /\ AllFailed(req[r].calls)
        /\ KeywordHits(req[r].text) = {}
        /\ req[r].cls.category = Produtivo

\* C4 (as claimed): every suggested response that comes from the model is at
\* least 30 characters long, in both branches of generate_response.
C4_ModelReplyAtLeast30InBothBranches ==
    \A r \in DOMAIN req :
        req[r].pc \in {"gen_return", "done"} /\ req[r].gen_source = "llm" =>
            Len(req[r].gen.suggested_response) >= MIN_REPLY_LEN

\* C4 (amended): every suggested response that comes from the model is
\* non-empty, and at least 30 characters long in the Improdutivo branch.
C4_ModelReplyNonEmptyAnd30WhenImprodutivo ==
    \A r \in DOMAIN req :
        req[r].pc \in {"gen_return", "done"} /\ req[r].gen_source = "llm" =>
            /\ req[r].gen.suggested_response /= <<>>
            /\ req[r].category = Improdutivo
                  => Len(req[r].gen.suggested_response) >= MIN_REPLY_LEN

\* C4 witness: the Improdutivo branch returns a model reply of 31 characters,
\* stripped of the whitespace it came with
C4_Witness ==
    \E r \in DOMAIN req :
        /\ req[r].pc = "gen_return"
        /\ req[r].gen_source = "llm"
        /\ req[r].category = Improdutivo
        /\ Len(req[r].gen.suggested_response) = MIN_REPLY_LEN + 1
        /\ Len(req[r].resp.s) > MIN_REPLY_LEN + 1

\* the confidence value of the parsed reply of request r
ParsedConfidence(r) ==
    DictGet(_extract_json_from_text(StripLexemes(req[r].resp.s)).obj, "confidence", PyNone)

\* C5: the confidence returned by classify_email lies in [0.0, 1.0]; when the
\* model's category is used, a confidence convertible to a number is clamped
\* to that interval and a missing or non-numeric one becomes 0.7 for
\* Produtivo and 0.6 for Improdutivo.
C5_ConfidenceClampedOrDefaulted ==
    \A r \in DOMAIN req :
        req[r].pc = "cls_return" =>
            /\ req[r].cls.confidence \in 0..100
            /\ req[r].raised = PyNone /\ req[r].heuristic_calls = 0 =>
                  LET f == ToFloat(ParsedConfidence(r))
                      c == req[r].cls.confidence
                  IN  IF f.ok /\ ~f.nan
                      THEN c = IF f.v > 100 THEN 100 ELSE IF f.v < 0 THEN 0 ELSE f.v
                      ELSE IF f.ok THEN TRUE
                      ELSE c = IF req[r].cls.category = Produtivo THEN 70 ELSE 60

\* C5 witness: the parsed confidence is the string "1.5" and the result is 1.0
C5_Witness ==
    \E r \in DOMAIN req :
        /\ req[r].pc = "cls_return"
        /\ req[r].raised = PyNone /\ req[r].heuristic_calls = 0
        /\ ParsedConfidence(r) = PyStr(<<"1", ".", "5">>)
        /\ req[r].cls.confidence = 100

\* C6: _retry_backoff_call makes at most `retries` attempts, one at a time;
\* it returns the value of the first successful attempt and makes no attempt
\* after it; when all `retries` attempts fail it raises the failure of the
\* last attempt.
C6_RetryBoundedFirstSuccessLastFailure ==
    \A r \in DOMAIN req :
        LET q == req[r]
            n == Len(q.calls)
        IN  /\ q.attempts <= q.retries
            /\ q.attempts = n + (IF q.pc = "in_call" THEN 1 ELSE 0)
            /\ \A k \in 1..(n - 1) : q.calls[k].t = "exc"
            /\ q.pc \in {"cls_reply", "gen_reply", "retry_returned"} =>
                  /\ n >= 1
                  /\ q.calls[n].t /= "exc"
                  /\ q.resp = q.calls[n]
            /\ q.pc \in {"cls_except", "gen_except", "retry_raised"} /\ AllFailed(q.calls) =>
                  /\ n = q.retries
                  /\ n > 0 => q.raised = q.calls[n]

\* C6 witness: three attempts failed, the last one differently, and that
\* last failure reached the caller
C6_Witness ==
    \E r \in DOMAIN req :
        /\ req[r].pc = "retry_raised"
        /\ req[r].calls = <<Exc("Timeout"), Exc("Timeout"), Exc("APIError")>>
        /\ req[r].raised = Exc("APIError")

\* what classify_email returns when it runs alone on this text with these
\* call outcomes
AloneClassify(email_text, calls) ==
    IF calls = <<>> \/ calls[Len(calls)].t = "exc"
    THEN heuristics_fallback_classify(email_text)
    ELSE LET o == ClassifyReply(email_text, calls[Len(calls)])
         IN  IF o.raised /= "None" THEN heuristics_fallback_classify(email_text)
             ELSE o.value

\* what generate_response returns when it runs alone
AloneGenerate(category, calls) ==
    LET branch == IF category = Improdutivo THEN "Improdutivo" ELSE "Produtivo"
    IN  IF calls = <<>> \/ calls[Len(calls)].t = "exc"
        THEN TemplateOfCategory(category)
        ELSE LET o == GenerateReply(branch, calls[Len(calls)])
             IN  IF o.raised /= "None" THEN TemplateOfCategory(category) ELSE o.reply

\* C9: in every interleaving of concurrent requests, each request's results
\* are those it would get alone from its own input and the outcomes of its
\* own external calls, and the template table and the configuration never
\* change.
C9_ConcurrentRequestsIndependent ==
    /\ TEMPLATES = InitialTemplates
    /\ CONFIG = InitialConfig
    /\ \A r \in DOMAIN req :
          /\ req[r].pc = "cls_return"
                => req[r].cls = AloneClassify(req[r].email_text, req[r].calls)
          /\ req[r].pc = "generate_response" \/ req[r].fn = "generate_response"
                => /\ req[r].category = req[r].cls.category
                   /\ req[r].summary = PyStr(req[r].cls.summary)
          /\ req[r].pc \in {"gen_return", "done"}
                => req[r].gen.suggested_response
                       = AloneGenerate(req[r].category, req[r].calls)
          /\ req[r].pc = "done"
                => req[r].result = [category |-> req[r].category,
                                    suggested |-> req[r].gen.suggested_response]

\* C9 witness: two requests with the same text have both finished, one with
\* the Improdutivo template after its own calls failed, the other with a
\* reply of the model
C9_Witness ==
    /\ DOMAIN req = Concurrent
    /\ req[1].pc = "done" /\ req[2].pc = "done"
    /\ req[1].email_text = req[2].email_text
    /\ req[1].result.suggested = TEMPLATE_IMPRODUTIVO
    /\ req[2].gen_source = "llm"

\* the raw category of the parsed reply of request r (line 187)
ParsedCategory(r) ==
    RawCategory(_extract_json_from_text(StripLexemes(req[r].resp.s)).obj)

\* the model's reply was parsed and classify_email returned from it
ReturnedFromReply(r) ==
    /\ req[r].pc = "cls_return"
    /\ req[r].raised = PyNone
    /\ GotReply(r)

\* C12: when the model's category is not canonical after case normalization,
\* a raw category containing 'improd' is normalized to Improdutivo and one
\* containing 'prod' but not 'improd' to Produtivo.
C12_NonCanonicalCategoryMappedByIntent ==
    \A r \in DOMAIN req :
        ReturnedFromReply(r) /\ Capitalize(ParsedCategory(r)) \notin Canonical =>
            LET low == Lower(ParsedCategory(r))
            IN  /\ Contains(low, <<"i", "m", "p", "r", "o", "d">>)
                      => req[r].cls.category = Improdutivo
                /\ Contains(low, <<"p", "r", "o", "d">>)
                      /\ ~Contains(low, <<"i", "m", "p", "r", "o", "d">>)
                      => req[r].cls.category = Produtivo

\* the value of `key` in the parsed reply of request r
ParsedValue(r, key) ==
    DictGet(_extract_json_from_text(StripLexemes(req[r].resp.s)).obj, key, Missing)

\* the reply of request r parsed, and its category is a str that is a
\* canonical value up to letter case and surrounding whitespace
CategoryIsCanonicalVariant(r) ==
    /\ req[r].pc = "cls_return"
    /\ GotReply(r)
    /\ req[r].resp.t = "str"
    /\ _extract_json_from_text(StripLexemes(req[r].resp.s)).ok
    /\ ParsedValue(r, "category").t = "str"
    /\ Capitalize(Strip(ParsedValue(r, "category").s)) \in Canonical

\* C13: when the model's raw category is a case or surrounding-whitespace
\* variant of a canonical value, classify_email returns that canonical
\* category with the model's own confidence (a number of [0, 1] as it is) and
\* summary (a str, stripped), and the heuristic classifier is not invoked.
C13_CanonicalVariantKeepsModelResult ==
    \A r \in DOMAIN req :
        CategoryIsCanonicalVariant(r) =>
            LET confidence == ParsedValue(r, "confidence")
                summary    == ParsedValue(r, "summary")
            IN  /\ req[r].raised = PyNone
                /\ req[r].heuristic_calls = 0
                /\ req[r].cls.category = Capitalize(Strip(ParsedValue(r, "category").s))
                /\ confidence.t = "num" /\ confidence.v \in 0..100
                      => req[r].cls.confidence = confidence.v
                /\ summary.t = "str" => req[r].cls.summary = Strip(summary.s)

\* C13 witness: the raw category "PRODUTIVO " on a text without any
\* keyword, returned as Produtivo with the model's 0.9 and its summary
C13_Witness ==
    \E r \in DOMAIN req :
        /\ CategoryIsCanonicalVariant(r)
        /\ ParsedValue(r, "category") =
               PyStr(<<"P", "R", "O", "D", "U", "T", "I", "V", "O", " ">>)
        /\ ParsedValue(r, "confidence") = PyNum(90)
        /\ KeywordHits(req[r].email_text) = {}
        /\ req[r].cls = [category |-> Produtivo, confidence |-> 90,
                         summary |-> <<"r", "e", "s", "u", "m", "o">>]
        /\ req[r].heuristic_calls = 0

\* the entry point of request r has returned or raised
Terminated(r) ==
    \/ req[r].pc \in {"done", "retry_returned", "retry_raised"}
    \/ req[r].entry = "generate_response" /\ req[r].pc = "gen_return"

\* calls of request r made and not yet answered
InFlight(r) == req[r].attempts - Len(req[r].calls)

\* at most 3 calls in classify_email, 2 in the Improdutivo branch and 3 in the
\* Produtivo branch of generate_response, one at a time, generation after
\* classification
CallsBoundedAndSequential ==
    \A r \in DOMAIN req :
        /\ req[r].fn = "classify_email" => req[r].attempts <= 3
        /\ req[r].fn = "generate_response" =>
              /\ req[r].attempts <= IF req[r].category = Improdutivo THEN 2 ELSE 3
              /\ req[r].entry = "call_llm_for_classify_and_respond" =>
                    req[r].cls /= PyNone /\ req[r].category = req[r].cls.category
        /\ InFlight(r) \in {0, 1}
        /\ InFlight(r) = 1 <=> req[r].pc = "in_call"

\* a step from a received reply, or from an except clause, makes no call and
\* goes to the except clause or to the return
UnusableReplyNotRetried ==
    \A r \in DOMAIN req :
        /\ req[r].pc \in {"cls_reply", "cls_except"} /\ req'[r] /= req[r] =>
              /\ req'[r].pc \in {"cls_except", "cls_return"}
              /\ req'[r].attempts = req[r].attempts /\ req'[r].calls = req[r].calls
              /\ req'[r].pc = "cls_return" /\ CannotUseModel(r) =>
                    req'[r].cls = heuristics_fallback_classify(req[r].email_text)
        /\ req[r].pc \in {"gen_reply", "gen_except"} /\ req'[r] /= req[r] =>
              /\ req'[r].pc \in {"gen_except", "gen_return"}
              /\ req'[r].attempts = req[r].attempts /\ req'[r].calls = req[r].calls
              /\ req[r].pc = "gen_except" =>
                    req'[r].gen.suggested_response = TemplateOfCategory(req[r].category)

\* C14: one request is a single sequential chain that always terminates:
\* classify_email makes at most 3 external calls, generate_response at most 2
\* (Improdutivo) or 3 (Produtivo), every generate call follows the return of
\* the classification, no two calls of a request are in flight at once, and a
\* successful call with an unusable output is not retried but goes straight
\* to the fallback.
C14_SequentialBoundedChainTerminates ==
    /\ []CallsBoundedAndSequential
    /\ [][UnusableReplyNotRetried]_vars
    /\ \A r \in Single : <>Terminated(r)

\* C14 witness: a pipeline request has ended after one classification call
\* whose reply had an ambiguous category and one generation call whose reply
\* was rejected, each followed at once by its fallback
C14_Witness ==
    \E r \in DOMAIN req :
        /\ req[r].pc = "done"
        /\ req[r].heuristic_calls = 1
        /\ req[r].gen_source = "template"
        /\ Len(req[r].calls) = 1
        /\ GotReply(r)

\* pcs of a request inside _retry_backoff_call or back in its caller, before
\* the next function of the chain starts
RetryPcs ==
    {"retry_loop", "in_call", "sleep", "cls_reply", "cls_except", "cls_return",
     "gen_reply", "gen_except", "gen_return", "retry_returned", "retry_raised"}

\* the failed attempts of request r so far
Failures(r) == Cardinality({k \in 1..Len(req[r].calls) : req[r].calls[k].t = "exc"})

\* base_delay * (2^0 + ... + 2^(n-1))
RECURSIVE SumOfDelays(_, _)
SumOfDelays(base_delay, n) ==
    IF n = 0 THEN 0 ELSE SumOfDelays(base_delay, n - 1) + base_delay * 2^(n - 1)

\* the time slept is the sum of the delays of the failed attempts already
\* slept for; a successful attempt adds nothing; three failures with base
\* delay 1.0 have slept 7 seconds when the failure reaches the caller
SleptIsSumOfBackoffDelays ==
    \A r \in DOMAIN req :
        req[r].pc \in RetryPcs =>
            /\ req[r].slept =
                  SumOfDelays(req[r].base_delay,
                              Failures(r) - (IF req[r].pc = "sleep" THEN 1 ELSE 0))
            /\ (/\ req[r].pc \in {"cls_except", "gen_except", "retry_raised"}
                /\ req[r].retries = 3 /\ req[r].base_delay = 10
                /\ Failures(r) = 3)
                  => req[r].slept = 70

\* the sleep after failed attempt number i (from 0) lasts base_delay * 2^i,
\* and a step from a successful attempt does not sleep
EachSleepDoubles ==
    \A r \in DOMAIN req :
        /\ req[r].pc = "sleep" /\ req'[r] /= req[r] =>
              req'[r].slept - req[r].slept =
                  req[r].base_delay * 2^(Len(req[r].calls) - 1)
        /\ req[r].pc = "in_call" /\ req'[r].pc \notin {"in_call", "sleep"} =>
              req'[r].slept = req[r].slept

\* C15: in _retry_backoff_call the sleep after failed attempt number i
\* (counted from 0) is base_delay * 2^i, no sleep follows a successful
\* attempt, and when all attempts of a 3-attempt budget with base delay 1.0
\* fail, 1 + 2 + 4 = 7 seconds have been slept when the failure reaches the
\* caller.
C15_BackoffDelaysDoubleAndSumToSeven ==
    /\ []SleptIsSumOfBackoffDelays
    /\ [][EachSleepDoubles]_vars

\* C15 witness: classify_email is in its except clause after three failed
\* attempts and 7 seconds of sleep
C15_Witness ==
    \E r \in DOMAIN req :
        /\ req[r].pc = "cls_except"
        /\ req[r].fn = "classify_email"
        /\ Len(req[r].calls) = 3 /\ AllFailed(req[r].calls)
        /\ req[r].slept = 70

\* the six patterns of anonymize_text
Patterns == {"email", "cpf", "d11", "cnpj", "d14", "d6"}

\* t1 and t2 are equal except for one span each, at the same place, that one
\* and the same pattern of anonymize_text matches
DifferOnlyInsideAnonymizedSpan(t1, t2) ==
    /\ t1 /= t2
    /\ \E i \in 1..Len(t1), pat \in Patterns :
          LET e1 == MatchAt(pat, t1, i)
              e2 == IF i <= Len(t2) THEN MatchAt(pat, t2, i) ELSE 0
          IN  /\ e1 > 0 /\ e2 > 0
              /\ SubSeq(t1, 1, i - 1) = SubSeq(t2, 1, i - 1)
              /\ SubSeq(t1, e1, Len(t1)) = SubSeq(t2, e2, Len(t2))

\* the pairs of request texts that differ only inside an anonymized span
SpanPairs ==
    {p \in RequestTexts \X RequestTexts : DifferOnlyInsideAnonymizedSpan(p[1], p[2])}

\* the request texts that hold an e-mail address
TextsWithAddress ==
    {t \in RequestTexts : \E i \in 1..Len(t) : MatchEmail(t, i) > 0}

\* request r has made an external call of classify_email or generate_response
HasSent(r) == req[r].sent /= PyNone

\* C16: the email text embedded in every prompt sent by classify_email and by
\* both branches of generate_response is anonymize_text(input); the raw text
\* of an input with an anonymized span is never sent; and two inputs that
\* differ only inside anonymized spans produce identical classification
\* prompts.
C16_PromptsCarryAnonymizedTextOnly ==
    /\ \A r \in DOMAIN req :
          HasSent(r) =>
              /\ req[r].sent.messages.email = ANONYMIZED[req[r].email_text]
              /\ req[r].pc = "in_call" =>
                    req[r].sent.messages.kind =
                        (CASE req[r].fn = "classify_email" -> "classify"
                           [] req[r].category = Improdutivo -> "improdutivo"
                           [] OTHER -> "produtivo")
              /\ req[r].email_text \in TextsWithAddress
                    => req[r].sent.messages.email /= req[r].email_text
    /\ \A r1, r2 \in DOMAIN req :
          /\ HasSent(r1) /\ HasSent(r2)
          /\ req[r1].sent.messages.kind = "classify"
          /\ req[r2].sent.messages.kind = "classify"
          /\ <<req[r1].email_text, req[r2].email_text>> \in SpanPairs
          => req[r1].sent = req[r2].sent

\* C16 witness: two requests whose texts differ only in the e-mail address
\* they hold; one has sent its classification prompt, the other the prompt of
\* the Improdutivo branch, both with the placeholder in place of the address
C16_Witness ==
    \E r1, r2 \in DOMAIN req :
        /\ HasSent(r1) /\ HasSent(r2)
        /\ <<req[r1].email_text, req[r2].email_text>> \in SpanPairs
        /\ req[r1].sent.messages.kind = "classify"
        /\ req[r2].sent.messages.kind = "improdutivo"
        /\ req[r1].sent.messages.email = <<"o", "l", "a", " ">> \o EMAIL_REMOVIDO
        /\ req[r2].sent.messages.email = req[r1].sent.messages.email

\* request r is inside generate_response or has returned from it
InGenerate(r) == req[r].fn = "generate_response"

\* C17: generate_response takes the Improdutivo branch only when the category
\* argument is exactly 'Improdutivo'; every other value (a case variant such
\* as 'improdutivo', an unknown string, the empty string) takes the Produtivo
\* branch, with its budget of 3 attempts, and on failure returns the
\* Produtivo template.
C17_OnlyExactImprodutivoTakesShortBranch ==
    \A r \in DOMAIN req :
        InGenerate(r) =>
            /\ req[r].branch = "Improdutivo" <=>
                  req[r].category = <<"I", "m", "p", "r", "o", "d", "u", "t", "i", "v", "o">>
            /\ req[r].branch = "Improdutivo" =>
                  /\ req[r].messages.kind = "improdutivo"
                  /\ req[r].retries = 2
            /\ req[r].branch /= "Improdutivo" =>
                  /\ req[r].branch = "Produtivo"
                  /\ req[r].messages.kind = "produtivo"
                  /\ req[r].retries = 3 /\ req[r].attempts <= 3
                  /\ req[r].pc = "gen_except" /\ AllFailed(req[r].calls)
                        => Len(req[r].calls) = 3
                  /\ req[r].pc \in {"gen_return", "done"} /\ req[r].gen_source = "template"
                        => req[r].gen.suggested_response = TEMPLATE_PRODUTIVO

\* C17 witness: generate_response called with 'improdutivo' in lower case
\* has made three attempts, all failed, and returned the Produtivo template
C17_Witness ==
    \E r \in DOMAIN req :
        /\ InGenerate(r)
        /\ req[r].category = <<"i", "m", "p", "r", "o", "d", "u", "t", "i", "v", "o">>
        /\ req[r].pc = "gen_return"
        /\ Len(req[r].calls) = 3 /\ AllFailed(req[r].calls)
        /\ req[r].gen.suggested_response = TEMPLATE_PRODUTIVO

====
